---- MODULE Spec2Model ----
(***************************************************************************)
(* NYC taxi duration prediction: training pipeline, prediction service,    *)
(* prediction logger and drift monitor of lessons 05-monitoring and        *)
(* 06-cicd, modelled as state machines.                                    *)
(*                                                                         *)
(* Text (feature keys, CSV cells) is a sequence of one-character strings.  *)
(* Real numbers are fixed point: distances are in hundredths of a mile,    *)
(* predictions and logged durations in hundredths of a minute; the raw     *)
(* trip records carry pickup and dropoff times in seconds, and the         *)
(* duration column is kept in seconds (sixtieths of a minute).             *)
(***************************************************************************)
EXTENDS Integers, Sequences, FiniteSets, TLC

VARIABLES
    lesson,        \* which lesson's programs run: "05-monitoring" or "06-cicd"
    run_id_txt,    \* content of run_id.txt, or None when the file is missing
    models_model,  \* 06-cicd: the deployment directory models/model
    mlruns,        \* the MLflow tracking store: one record per started run
    train,         \* the training process: its position in train_and_log
    svc,           \* the service process: "down", "serving" or "terminated"
    RUN_ID,        \* app.py global RUN_ID
    model,         \* app.py global model
    last,          \* the request handled last by this process and its outcome
    raw,           \* the trip records of the parquet file at DATA_URL
    main_pc,       \* train.py main: the call it makes next
    limit,         \* load_data's parameter limit
    df,            \* train.py main: the frame load_data returned
    features,      \* train.py main: what prepare_features returned
    served,        \* the feature dicts predict builds for df's rows sent as requests
    predictions_csv,        \* data/predictions.csv
    sim,                    \* the simulate.py processes: position in main, and out
    monitor,                \* what the last run of monitor.py computed and how it ended
    monitoring_report_html, \* monitoring_report.html
    written                 \* history: the rows the ended simulate.py runs wrote, in order

svcVars == <<lesson, run_id_txt, models_model, mlruns, train, svc, RUN_ID, model, last>>
dataVars == <<raw, main_pc, limit, df, features, served>>
logVars == <<predictions_csv, sim, monitor, monitoring_report_html, written>>
vars == <<svcVars, dataVars, logVars>>

----------------------------------------------------------------------------
(* Bounds *)

MaxRuns == 2      \* training runs started in one behaviour
MaxZone == 2      \* zone ids of requests are 0..MaxZone
MaxDist == 1      \* trip distances of requests are 0..MaxDist hundredths of a mile
MaxRecords == 2   \* trip records in the parquet file, and the largest limit
MaxDataZone == 11 \* zone ids of trip records are 1..MaxDataZone
MaxLog == 4       \* lines of data/predictions.csv
MaxBatch == 2     \* requests of one simulate.py run that are answered
MaxTs == 2        \* clock readings are 1..MaxTs

----------------------------------------------------------------------------
(* Values *)

None == "None"
Lessons == {"05-monitoring", "06-cicd"}

ZoneIds == 0..MaxZone
Distances == 0..MaxDist
Predictions == {1050}

\* A request body that parses as a RideRequest (three numbers).
Rides == [PULocationID : ZoneIds, DOLocationID : ZoneIds, trip_distance : Distances]

Digits == <<"0", "1", "2", "3", "4", "5", "6", "7", "8", "9">>

RECURSIVE NatToStr(_)
NatToStr(n) ==
    IF n < 10 THEN <<Digits[n + 1]>>
    ELSE NatToStr(n \div 10) \o <<Digits[(n % 10) + 1]>>

\* Python's str(int), which both an f-string field and astype(str) of an
\* int64 column produce.
PyStr(n) == IF n < 0 THEN <<"-">> \o NatToStr(-n) ELSE NatToStr(n)

\* The value of decimal text, as int() and the CSV reader compute it.
IsDigit(c) == \E d \in 0..9 : Digits[d + 1] = c
DigitValue(c) == CHOOSE d \in 0..9 : Digits[d + 1] = c

RECURSIVE DecimalValue(_)
DecimalValue(chars) ==
    IF chars = <<>> THEN 0
    ELSE 10 * DecimalValue(SubSeq(chars, 1, Len(chars) - 1)) + DigitValue(chars[Len(chars)])

\* run.info.run_id of the n-th run MLflow starts.
RunId(n) == "run-" \o ToString(n)

----------------------------------------------------------------------------
(* Training pipeline: prepare_features *)

\* df["PU_DO"] = df["PULocationID"].astype(str) + "_" + df["DOLocationID"].astype(str)
PU_DO_train(row) == PyStr(row.PULocationID) \o <<"_">> \o PyStr(row.DOLocationID)

\* One record of df[["PU_DO", "trip_distance"]].to_dict(orient="records").
TrainFeatureDict(row) ==
    [PU_DO |-> PU_DO_train(row), trip_distance |-> row.trip_distance]

----------------------------------------------------------------------------
(* Prediction service: request validation and feature building *)

\* Mutant: the trip_distance constraint is missing.
ValidRide_NoDistance(ride) ==
    /\ ride.PULocationID >= 1
    /\ ride.DOLocationID >= 1

\* RideRequest: PULocationID ge=1, DOLocationID ge=1, trip_distance gt=0.
ValidRide(ride) ==
    /\ ride.PULocationID >= 1
    /\ ride.DOLocationID >= 1
    /\ ride.trip_distance > 0

\* Mutant: dropoff and pickup in the other order.
PU_DO_serve_Swapped(ride) ==
    PyStr(ride.DOLocationID) \o <<"_">> \o PyStr(ride.PULocationID)

\* f"{ride.PULocationID}_{ride.DOLocationID}"
PU_DO_serve(ride) == PyStr(ride.PULocationID) \o <<"_">> \o PyStr(ride.DOLocationID)

\* predict's feature_dict.
FeatureDict(ride) ==
    [PU_DO |-> PU_DO_serve(ride), trip_distance |-> ride.trip_distance]

----------------------------------------------------------------------------
(* Training pipeline: train_and_log *)

NoDir == [exists |-> FALSE]
Idle == [pc |-> "idle"]

NewRun == [status |-> "RUNNING", params |-> FALSE, metrics |-> FALSE, model |-> FALSE]

\* with mlflow.start_run() as run:
StartRun ==
    /\ train.pc = "idle"
    /\ Len(mlruns) < MaxRuns
    /\ mlruns' = Append(mlruns, NewRun)
    /\ \E empty \in BOOLEAN :
          train' = [pc |-> "fit", run |-> Len(mlruns) + 1, empty_train |-> empty]
    /\ UNCHANGED <<lesson, run_id_txt, models_model, svc, RUN_ID, model, last>>
    /\ UNCHANGED <<dataVars, logVars>>

\* Mutant: run_id.txt is written before the fit, so a failed fit leaves it behind.
Fit_PublishFirst ==
    /\ train.pc = "fit"
    /\ run_id_txt' = RunId(train.run)
    /\ IF train.empty_train
          THEN /\ mlruns' = [mlruns EXCEPT ![train.run].status = "FAILED"]
               /\ train' = Idle
          ELSE /\ mlruns' = mlruns
               /\ train' = [train EXCEPT !.pc = "log_metrics"]
    /\ UNCHANGED <<lesson, models_model, svc, RUN_ID, model, last>>
    /\ UNCHANGED <<dataVars, logVars>>

\* pipeline.fit(X_train, y_train) and the evaluation on the validation set.  A fit
\* on an empty training set raises; the exception leaves the with block, which
\* ends the run as FAILED.
Fit ==
    /\ train.pc = "fit"
    /\ IF train.empty_train
          THEN /\ mlruns' = [mlruns EXCEPT ![train.run].status = "FAILED"]
               /\ train' = Idle
          ELSE /\ mlruns' = mlruns
               /\ train' = [train EXCEPT !.pc = "log_metrics"]
    /\ UNCHANGED <<lesson, run_id_txt, models_model, svc, RUN_ID, model, last>>
    /\ UNCHANGED <<dataVars, logVars>>

\* mlflow.log_params / log_metric / log_param.  06-cicd logs metrics only.
LogMetrics ==
    /\ train.pc = "log_metrics"
    /\ mlruns' = [mlruns EXCEPT ![train.run].metrics = TRUE,
                                ![train.run].params = (lesson = "05-monitoring")]
    /\ train' = [train EXCEPT !.pc = "log_model"]
    /\ UNCHANGED <<lesson, run_id_txt, models_model, svc, RUN_ID, model, last>>
    /\ UNCHANGED <<dataVars, logVars>>

\* mlflow.sklearn.log_model(pipeline, "model")
LogModel ==
    /\ train.pc = "log_model"
    /\ mlruns' = [mlruns EXCEPT ![train.run].model = TRUE]
    /\ train' = [train EXCEPT !.pc =
                    IF lesson = "05-monitoring" THEN "write_run_id" ELSE "end_run"]
    /\ UNCHANGED <<lesson, run_id_txt, models_model, svc, RUN_ID, model, last>>
    /\ UNCHANGED <<dataVars, logVars>>

\* with open("run_id.txt", "w") as f: f.write(run_id)
\* 05-monitoring writes it inside the run, 06-cicd as its last step.
WriteRunId ==
    /\ train.pc = "write_run_id"
    /\ run_id_txt' = RunId(train.run)
    /\ train' = IF lesson = "05-monitoring" THEN [train EXCEPT !.pc = "end_run"] ELSE Idle
    /\ UNCHANGED <<lesson, models_model, mlruns, svc, RUN_ID, model, last>>
    /\ UNCHANGED <<dataVars, logVars>>

\* Leaving the with block normally ends the run as FINISHED.
EndRun ==
    /\ train.pc = "end_run"
    /\ mlruns' = [mlruns EXCEPT ![train.run].status = "FINISHED"]
    /\ train' = IF lesson = "05-monitoring" THEN Idle ELSE [train EXCEPT !.pc = "rmtree"]
    /\ UNCHANGED <<lesson, run_id_txt, models_model, svc, RUN_ID, model, last>>
    /\ UNCHANGED <<dataVars, logVars>>

\* if DEPLOYMENT_MODEL_PATH.exists(): shutil.rmtree(DEPLOYMENT_MODEL_PATH)
Rmtree ==
    /\ train.pc = "rmtree"
    /\ models_model' = NoDir
    /\ train' = [train EXCEPT !.pc = "save_model"]
    /\ UNCHANGED <<lesson, run_id_txt, mlruns, svc, RUN_ID, model, last>>
    /\ UNCHANGED <<dataVars, logVars>>

\* mlflow.sklearn.save_model(pipeline, str(DEPLOYMENT_MODEL_PATH)) creates the
\* directory and then writes its files: the directory exists before it is complete.
SaveModelBegin ==
    /\ train.pc = "save_model"
    /\ models_model' = [exists |-> TRUE, pipeline |-> RunId(train.run), complete |-> FALSE]
    /\ train' = [train EXCEPT !.pc = "saving"]
    /\ UNCHANGED <<lesson, run_id_txt, mlruns, svc, RUN_ID, model, last>>
    /\ UNCHANGED <<dataVars, logVars>>

SaveModelEnd ==
    /\ train.pc = "saving"
    /\ models_model' = [models_model EXCEPT !.complete = TRUE]
    /\ train' = [train EXCEPT !.pc = "write_run_id"]
    /\ UNCHANGED <<lesson, run_id_txt, mlruns, svc, RUN_ID, model, last>>
    /\ UNCHANGED <<dataVars, logVars>>

----------------------------------------------------------------------------
(* Prediction service *)

NoRequest == [endpoint |-> "none"]

\* 05-monitoring lifespan: open("run_id.txt") and mlflow.pyfunc.load_model raise
\* when the file or the artifact is missing or the tracking server does not
\* answer; an exception in lifespan ends the process.
LoadFromTracking(run_id, reachable) ==
    IF reachable /\ \E n \in 1..Len(mlruns) : RunId(n) = run_id /\ mlruns[n].model
        THEN run_id
        ELSE None

Lifespan05 ==
    /\ lesson = "05-monitoring"
    /\ svc = "down"
    /\ IF run_id_txt = None
          THEN /\ svc' = "terminated"
               /\ UNCHANGED <<RUN_ID, model>>
          ELSE /\ RUN_ID' = run_id_txt
               /\ \E reachable \in BOOLEAN :
                     LET loaded == LoadFromTracking(run_id_txt, reachable) IN
                     IF loaded = None
                        THEN svc' = "terminated" /\ model' = model
                        ELSE svc' = "serving" /\ model' = loaded
    /\ UNCHANGED <<lesson, run_id_txt, models_model, mlruns, train, last>>
    /\ UNCHANGED <<dataVars, logVars>>

\* 06-cicd lifespan: a missing run_id.txt gives RUN_ID None; a missing model
\* directory or a failing load gives model None; startup completes either way.
LoadFromDir(dir) ==
    IF dir.exists
        THEN IF dir.complete THEN dir.pipeline ELSE None
        ELSE None

Lifespan06 ==
    /\ lesson = "06-cicd"
    /\ svc = "down"
    /\ RUN_ID' = run_id_txt
    /\ model' = LoadFromDir(models_model)
    /\ svc' = "serving"
    /\ UNCHANGED <<lesson, run_id_txt, models_model, mlruns, train, last>>
    /\ UNCHANGED <<dataVars, logVars>>

\* The process exits (stopped, or gone after a failed startup); the next process
\* starts from the module's initial globals.
Exit ==
    /\ svc \in {"serving", "terminated"}
    /\ svc' = "down"
    /\ RUN_ID' = None
    /\ model' = None
    /\ last' = NoRequest
    /\ UNCHANGED <<lesson, run_id_txt, models_model, mlruns, train>>
    /\ UNCHANGED <<dataVars, logVars>>

\* GET /
Root ==
    /\ svc = "serving"
    /\ last' = [endpoint |-> "/", code |-> 200]
    /\ UNCHANGED <<lesson, run_id_txt, models_model, mlruns, train, svc, RUN_ID, model>>
    /\ UNCHANGED <<dataVars, logVars>>

\* RUN_ID or "unknown"
OrUnknown(run_id) == IF run_id = None \/ run_id = "" THEN "unknown" ELSE run_id

HealthBody05 == [status |-> "ok", run_id |-> RUN_ID]

HealthBody06 ==
    [status |-> IF model # None THEN "ok" ELSE "degraded",
     run_id |-> OrUnknown(RUN_ID),
     model_loaded |-> model # None]

\* GET /health
Health ==
    /\ svc = "serving"
    /\ last' = [endpoint |-> "/health", code |-> 200,
                body |-> IF lesson = "05-monitoring" THEN HealthBody05 ELSE HealthBody06]
    /\ UNCHANGED <<lesson, run_id_txt, models_model, mlruns, train, svc, RUN_ID, model>>
    /\ UNCHANGED <<dataVars, logVars>>

\* The outcome of the predict handler of 05-monitoring for a validated ride:
\* model.predict on a None model is an AttributeError, which the framework
\* answers with a 500 it did not get from the handler.
Handle05(ride, pred) ==
    IF model = None
        THEN [endpoint |-> "/predict", request |-> ride, code |-> 500,
              error |-> "unhandled", features |-> FeatureDict(ride), model_called |-> FALSE]
        ELSE [endpoint |-> "/predict", request |-> ride, code |-> 200,
              features |-> FeatureDict(ride), model_called |-> TRUE,
              body |-> [duration |-> pred, model_version |-> OrUnknown(RUN_ID)]]

\* Mutant: the handler without its "if model is None" guard.
Handle06_NoGuard(ride, pred) == Handle05(ride, pred)

\* The outcome of the predict handler of 06-cicd for a validated ride.
Handle06(ride, pred) ==
    IF model = None
        THEN [endpoint |-> "/predict", request |-> ride, code |-> 500,
              error |-> "HTTPException", model_called |-> FALSE]
        ELSE [endpoint |-> "/predict", request |-> ride, code |-> 200,
              features |-> FeatureDict(ride), model_called |-> TRUE,
              body |-> [duration |-> pred, model_version |-> OrUnknown(RUN_ID)]]

\* The framework validates the body against RideRequest before it calls predict.
Respond(ride, pred) ==
    IF ~ValidRide(ride)
        THEN [endpoint |-> "/predict", request |-> ride, code |-> 422,
              error |-> "ValidationError", model_called |-> FALSE]
        ELSE IF lesson = "05-monitoring" THEN Handle05(ride, pred) ELSE Handle06(ride, pred)

\* POST /predict
Predict ==
    /\ svc = "serving"
    /\ \E ride \in Rides, pred \in Predictions : last' = Respond(ride, pred)
    /\ UNCHANGED <<lesson, run_id_txt, models_model, mlruns, train, svc, RUN_ID, model>>
    /\ UNCHANGED <<dataVars, logVars>>


----------------------------------------------------------------------------
(* Training pipeline: load_data, and main up to the features *)

SecondsPerMinute == 60    \* .dt.total_seconds() / 60
MinDuration == 1          \* df["duration"] >= 1
MaxDuration == 60         \* df["duration"] <= 60
MinDistance == 0          \* df["trip_distance"] > 0
MaxDistance == 100        \* df["trip_distance"] < 100
HundredthsPerMile == 100  \* the model's unit of distance

SeqsUpTo(S, n) == UNION {[1..k -> S] : k \in 0..n}

\* pd.read_parquet(DATA_URL): the frame's index labels are 0, 1, 2, ...
ReadParquet(records) ==
    [i \in 1..Len(records) |->
        [index |-> i - 1,
         tpep_pickup_datetime |-> records[i].tpep_pickup_datetime,
         tpep_dropoff_datetime |-> records[i].tpep_dropoff_datetime,
         trip_distance |-> records[i].trip_distance,
         PULocationID |-> records[i].PULocationID,
         DOLocationID |-> records[i].DOLocationID]]

\* df["duration"] = (dropoff - pickup).dt.total_seconds() / 60, kept in seconds.
WithDuration(frame) ==
    [i \in 1..Len(frame) |->
        [index |-> frame[i].index,
         tpep_pickup_datetime |-> frame[i].tpep_pickup_datetime,
         tpep_dropoff_datetime |-> frame[i].tpep_dropoff_datetime,
         trip_distance |-> frame[i].trip_distance,
         PULocationID |-> frame[i].PULocationID,
         DOLocationID |-> frame[i].DOLocationID,
         duration |-> frame[i].tpep_dropoff_datetime - frame[i].tpep_pickup_datetime]]

\* Mutant: strict comparisons.
DurationMask_Strict(row) ==
    /\ row.duration > MinDuration * SecondsPerMinute
    /\ row.duration < MaxDuration * SecondsPerMinute

\* (df["duration"] >= 1) & (df["duration"] <= 60)
DurationMask(row) ==
    /\ row.duration >= MinDuration * SecondsPerMinute
    /\ row.duration <= MaxDuration * SecondsPerMinute

\* (df["trip_distance"] > 0) & (df["trip_distance"] < 100)
DistanceMask(row) ==
    /\ row.trip_distance > MinDistance * HundredthsPerMile
    /\ row.trip_distance < MaxDistance * HundredthsPerMile

\* df.head(limit)
Head_(frame, n) == SubSeq(frame, 1, IF n < Len(frame) THEN n ELSE Len(frame))

load_data(records, lim) ==
    LET f0 == WithDuration(ReadParquet(records))
        f1 == SelectSeq(f0, DurationMask)
        f2 == SelectSeq(f1, DistanceMask)
    IN  Head_(f2, lim)

\* prepare_features adds the PU_DO column to df in place ...
WithPU_DO(frame) ==
    [i \in 1..Len(frame) |->
        [index |-> frame[i].index,
         tpep_pickup_datetime |-> frame[i].tpep_pickup_datetime,
         tpep_dropoff_datetime |-> frame[i].tpep_dropoff_datetime,
         trip_distance |-> frame[i].trip_distance,
         PULocationID |-> frame[i].PULocationID,
         DOLocationID |-> frame[i].DOLocationID,
         duration |-> frame[i].duration,
         PU_DO |-> PU_DO_train(frame[i])]]

\* ... and returns the feature dicts and the target.
prepare_features(frame) ==
    [X |-> [i \in 1..Len(frame) |-> TrainFeatureDict(frame[i])],
     y |-> [i \in 1..Len(frame) |-> frame[i].duration]]

\* simulate_requests' payload for a row: int(...), int(...), float(...).
Payload(row) ==
    [PULocationID |-> row.PULocationID,
     DOLocationID |-> row.DOLocationID,
     trip_distance |-> row.trip_distance]

\* What the service's predict passes to the model for a payload, or the
\* framework's rejection.
Served(ride) ==
    IF ValidRide(ride) THEN [code |-> 200, features |-> FeatureDict(ride)]
    ELSE [code |-> 422]

LoadData ==
    /\ main_pc = "load_data"
    /\ \E lim \in 0..MaxRecords :
          /\ limit' = lim
          /\ df' = load_data(raw, lim)
    /\ main_pc' = "prepare_features"
    /\ UNCHANGED <<raw, features, served>>
    /\ UNCHANGED <<svcVars, logVars>>

PrepareFeatures ==
    /\ main_pc = "prepare_features"
    /\ df' = WithPU_DO(df)
    /\ features' = prepare_features(df)
    /\ main_pc' = "train_test_split"
    /\ UNCHANGED <<raw, limit, served>>
    /\ UNCHANGED <<svcVars, logVars>>

\* The rows of the frame sent to the service as requests.
SendRows ==
    /\ main_pc = "train_test_split"
    /\ served' = [i \in 1..Len(df) |-> Served(Payload(df[i]))]
    /\ main_pc' = "done"
    /\ UNCHANGED <<raw, limit, df, features>>
    /\ UNCHANGED <<svcVars, logVars>>

PickupTimes == {0, 1}
DropoffTimes ==
    {MinDuration * SecondsPerMinute, MinDuration * SecondsPerMinute + 1,
     MaxDuration * SecondsPerMinute, MaxDuration * SecondsPerMinute + 1}
RawDistances == {MinDistance * HundredthsPerMile, 1, MaxDistance * HundredthsPerMile}

\* Records that differ in their times and distance.
TimeRecords ==
    [tpep_pickup_datetime : PickupTimes, tpep_dropoff_datetime : DropoffTimes,
     trip_distance : RawDistances, PULocationID : {1}, DOLocationID : {1}]

\* Records that differ in their zones.
ZoneRecords ==
    [tpep_pickup_datetime : {0}, tpep_dropoff_datetime : {600},
     trip_distance : {250}, PULocationID : 1..MaxDataZone, DOLocationID : 1..MaxDataZone]


----------------------------------------------------------------------------
(* Prediction log: the CSV file *)

NaN == -1

\* to_csv's text of a float: repr(), the shortest decimal that reads back.
FloatRepr(h) ==
    NatToStr(h \div 100) \o <<".">> \o
    (IF h % 10 = 0 THEN <<Digits[((h % 100) \div 10) + 1]>>
     ELSE <<Digits[((h % 100) \div 10) + 1], Digits[(h % 10) + 1]>>)

\* A missing value is written as an empty cell.
FloatCell(x) == IF x = NaN THEN <<>> ELSE FloatRepr(x)

\* read_csv's value of a numeric cell.
ParseFloat(chars) ==
    LET dot == CHOOSE k \in 1..Len(chars) : chars[k] = "."
        frac == SubSeq(chars, dot + 1, Len(chars))
    IN  100 * DecimalValue(SubSeq(chars, 1, dot - 1))
        + (IF Len(frac) = 1 THEN 10 * DecimalValue(frac) ELSE DecimalValue(frac))

ParseCell(chars) == IF chars = <<>> THEN NaN ELSE ParseFloat(chars)

\* out.to_csv(LOG_PATH, index=False): one line per row, columns
\* ts, PU_DO, trip_distance, prediction, duration.
to_csv(frame) ==
    [i \in 1..Len(frame) |->
        <<frame[i].ts, frame[i].PU_DO, FloatCell(frame[i].trip_distance),
          FloatCell(frame[i].prediction), FloatCell(frame[i].duration)>>]

\* pd.read_csv(LOG_PATH): ts and PU_DO stay text.
read_csv(lines) ==
    [i \in 1..Len(lines) |->
        [ts |-> lines[i][1], PU_DO |-> lines[i][2],
         trip_distance |-> ParseCell(lines[i][3]),
         prediction |-> ParseCell(lines[i][4]),
         duration |-> ParseCell(lines[i][5])]]

----------------------------------------------------------------------------
(* Prediction logger: simulate.py *)

Writers == {"simulate-1", "simulate-2"}

\* The example payload of RideRequest and the service's answer to it.
SamplePU == 138
SampleDO == 236
SampleDistance == 250
SamplePrediction == 1050
SampleDuration == 1000

\* pd.Timestamp.utcnow().isoformat()
IsoFormat(t) == PyStr(t)

\* The row simulate_requests records for a request answered at time t.
LogEntry(t) ==
    [ts |-> IsoFormat(t),
     PU_DO |-> PyStr(SamplePU) \o <<"_">> \o PyStr(SampleDO),
     trip_distance |-> SampleDistance,
     prediction |-> SamplePrediction,
     duration |-> SampleDuration]

\* The clock readings of one run's answered requests: the run sleeps between
\* requests, so they increase.
Batches ==
    {b \in SeqsUpTo(1..MaxTs, MaxBatch) : \A i \in 1..(Len(b) - 1) : b[i] < b[i + 1]}

NoFile == [exists |-> FALSE]
File(lines) == [exists |-> TRUE, lines |-> lines]

Rows(csv) == IF csv.exists THEN csv.lines ELSE <<>>

SimIdle == [pc |-> "idle", out |-> <<>>, new |-> <<>>]

\* Mutant: the earlier content is not merged in.
pd_concat_OutOnly(prev, out) == out

\* pd.concat([prev, out], ignore_index=True)
pd_concat(prev, out) == prev \o out

\* out = simulate_requests(df); if out.empty: return
SimulateRequests(w) ==
    /\ sim[w].pc = "idle"
    /\ \E b \in Batches :
          /\ Len(Rows(predictions_csv)) + Len(b) <= MaxLog
          /\ LET out == [i \in 1..Len(b) |-> LogEntry(b[i])] IN
             sim' = [sim EXCEPT ![w] =
                        IF out = <<>> THEN SimIdle
                        ELSE [pc |-> "merge", out |-> out, new |-> out]]
    /\ UNCHANGED <<predictions_csv, monitor, monitoring_report_html, written>>
    /\ UNCHANGED <<svcVars, dataVars>>

\* if LOG_PATH.exists(): prev = pd.read_csv(LOG_PATH); out = pd.concat([prev, out])
SimMerge(w) ==
    /\ sim[w].pc = "merge"
    /\ sim' = [sim EXCEPT ![w].pc = "write",
                          ![w].out = IF predictions_csv.exists
                                        THEN pd_concat(read_csv(predictions_csv.lines), sim[w].out)
                                        ELSE sim[w].out]
    /\ UNCHANGED <<predictions_csv, monitor, monitoring_report_html, written>>
    /\ UNCHANGED <<svcVars, dataVars>>

\* Mutant: the write appends to the file as it is now instead of overwriting it
\* with what was read earlier.
SimWrite_Reread(w) ==
    /\ sim[w].pc = "write"
    /\ predictions_csv' = File(Rows(predictions_csv) \o to_csv(sim[w].new))
    /\ sim' = [sim EXCEPT ![w] = SimIdle]
    /\ written' = written \o sim[w].new
    /\ UNCHANGED <<monitor, monitoring_report_html>>
    /\ UNCHANGED <<svcVars, dataVars>>

\* out.to_csv(LOG_PATH, index=False); the process ends.
SimWrite(w) ==
    /\ sim[w].pc = "write"
    /\ predictions_csv' = File(to_csv(sim[w].out))
    /\ sim' = [sim EXCEPT ![w] = SimIdle]
    /\ written' = written \o sim[w].new
    /\ UNCHANGED <<monitor, monitoring_report_html>>
    /\ UNCHANGED <<svcVars, dataVars>>

\* One simulate.py at a time: a run starts when no other is running.  Which
\* process runs makes no difference then, so one stands for either.
SoloSimulate ==
    LET w == CHOOSE v \in Writers : TRUE
    IN  /\ \A v \in Writers : sim[v].pc = "idle"
        /\ SimulateRequests(w)

Merge == \E w \in Writers : SimMerge(w)
Write == \E w \in Writers : SimWrite(w)

\* The rows the running simulate.py processes of S have recorded and not yet written.
RECURSIVE Unwritten(_)
Unwritten(S) ==
    IF S = {} THEN 0
    ELSE LET w == CHOOSE v \in S : TRUE
         IN  Len(sim[w].new) + Unwritten(S \ {w})

\* simulate.py takes no lock: a run starts whatever the other process is doing.
\* Runs start while the rows recorded so far leave room for one more batch.
RaceSimulate ==
    \E w \in Writers :
        /\ Len(written) + Unwritten(Writers \ {w}) + MaxBatch <= MaxLog
        /\ SimulateRequests(w)

----------------------------------------------------------------------------
(* Drift monitor: monitor.py *)

\* pd.read_csv(LOG_PATH, parse_dates=["ts"]): index labels 0, 1, 2, ...
read_csv_dates(lines) ==
    [i \in 1..Len(lines) |->
        [index |-> i - 1, ts |-> DecimalValue(lines[i][1]), PU_DO |-> lines[i][2],
         trip_distance |-> ParseCell(lines[i][3]),
         prediction |-> ParseCell(lines[i][4]),
         duration |-> ParseCell(lines[i][5])]]

NotNa(row) == row.prediction # NaN /\ row.duration # NaN

\* df.dropna(subset=["prediction", "duration"])
dropna(frame) == SelectSeq(frame, NotNa)

\* The place of row i after the sort: behind every row with an earlier ts, and
\* behind the rows of equal ts that stood before it.
Rank(frame, i) ==
    1 + Cardinality({j \in 1..Len(frame) :
                        \/ frame[j].ts < frame[i].ts
                        \/ (frame[j].ts = frame[i].ts /\ j < i)})

\* df.sort_values("ts"): on this few rows the sort is an insertion sort, which
\* keeps rows of equal ts in their order.
sort_values(frame) ==
    [k \in 1..Len(frame) |-> frame[CHOOSE i \in 1..Len(frame) : Rank(frame, i) = k]]

\* Mutant: the midpoint rounded up.
Midpoint_Ceil(n) == (n + 1) \div 2

\* midpoint = len(df) // 2
Midpoint(n) == n \div 2

NotRun == [outcome |-> "none"]

\* monitor.py main.  What Evidently does with an empty window is its own: it
\* may raise or render.
Monitor ==
    /\ IF ~predictions_csv.exists
          THEN /\ monitor' = [outcome |-> "FileNotFoundError", log |-> predictions_csv]
               /\ UNCHANGED monitoring_report_html
          ELSE LET frame == sort_values(dropna(read_csv_dates(predictions_csv.lines)))
                   midpoint == Midpoint(Len(frame))
                   reference == SubSeq(frame, 1, midpoint)
                   current == SubSeq(frame, midpoint + 1, Len(frame))
               IN  \E raises \in BOOLEAN :
                      /\ raises => (reference = <<>> \/ current = <<>>)
                      /\ monitor' = [outcome |-> IF raises THEN "EvidentlyError" ELSE "saved",
                                     log |-> predictions_csv,
                                     reference |-> reference, current |-> current]
                      /\ monitoring_report_html' =
                            IF raises THEN monitoring_report_html
                            ELSE [exists |-> TRUE]
    /\ UNCHANGED <<predictions_csv, sim, written>>
    /\ UNCHANGED <<svcVars, dataVars>>

\* The row of a log file found before simulate.py runs: it may lack the ground
\* truth.
FileEntries ==
    {[LogEntry(t) EXCEPT !.duration = d] : t \in 1..MaxTs, d \in {SampleDuration, NaN}}

----------------------------------------------------------------------------

\* Nothing trained, nothing deployed, no service process.
SvcInit ==
    /\ run_id_txt = None
    /\ models_model = NoDir
    /\ mlruns = <<>>
    /\ train = Idle
    /\ svc = "down"
    /\ RUN_ID = None
    /\ model = None
    /\ last = NoRequest

\* train.py main has not started.
DataStart ==
    /\ main_pc = "load_data"
    /\ limit = 0
    /\ df = <<>>
    /\ features = [X |-> <<>>, y |-> <<>>]
    /\ served = <<>>

\* No simulate.py and no monitor.py has run.
LogStart ==
    /\ sim = [w \in Writers |-> SimIdle]
    /\ monitor = NotRun
    /\ monitoring_report_html = NoFile
    /\ written = <<>>

Init ==
    /\ lesson \in Lessons
    /\ SvcInit
    /\ raw = <<>>
    /\ DataStart
    /\ predictions_csv = NoFile
    /\ LogStart

Next ==
    \/ StartRun \/ Fit \/ LogMetrics \/ LogModel \/ WriteRunId \/ EndRun
    \/ Rmtree \/ SaveModelBegin \/ SaveModelEnd
    \/ Lifespan05 \/ Lifespan06 \/ Exit
    \/ Root \/ Health \/ Predict

Spec == Init /\ [][Next]_vars

\* The training pipeline's data path on every bounded parquet file.
InitData ==
    /\ lesson \in Lessons
    /\ SvcInit
    /\ raw \in SeqsUpTo(TimeRecords, MaxRecords) \cup {<<r>> : r \in ZoneRecords}
    /\ DataStart
    /\ predictions_csv = NoFile
    /\ LogStart

NextData == LoadData \/ PrepareFeatures \/ SendRows

SpecData == InitData /\ [][NextData]_vars

\* The prediction log with one simulate.py at a time, and the drift monitor.
InitLog ==
    /\ lesson = "05-monitoring"
    /\ SvcInit
    /\ raw = <<>>
    /\ DataStart
    /\ predictions_csv \in {NoFile} \cup {File(to_csv(<<e>>)) : e \in FileEntries}
    /\ LogStart

NextLog == SoloSimulate \/ Merge \/ Write \/ Monitor

SpecLog == InitLog /\ [][NextLog]_vars

\* The prediction log with two simulate.py processes running at once.
NextRace == RaceSimulate \/ Merge \/ Write

SpecRace == InitLog /\ [][NextRace]_vars

----------------------------------------------------------------------------
(* Reading decimal text *)

\* chars is the decimal numeral of the natural number n, without leading zeros.
IsDecimalOf(chars, n) ==
    /\ Len(chars) >= 1
    /\ \A i \in 1..Len(chars) : IsDigit(chars[i])
    /\ Len(chars) > 1 => chars[1] # "0"
    /\ DecimalValue(chars) = n

\* key is "{pu}_{do}".
IsZonePairKey(key, pu, do) ==
    \E k \in 1..Len(key) :
        /\ key[k] = "_"
        /\ IsDecimalOf(SubSeq(key, 1, k - 1), pu)
        /\ IsDecimalOf(SubSeq(key, k + 1, Len(key)), do)

----------------------------------------------------------------------------
(* Claims about the training data path (SpecData) *)

\* C1: train/serve parity.  For every training record with zone ids >= 1, the
\* key predict builds for a request with those ids is the string
\* prepare_features derives for the record, namely "{pickup}_{dropoff}", and
\* trip_distance reaches both feature dicts unchanged.
C1_TrainServeParity ==
    main_pc = "done" =>
        \A i \in 1..Len(df) :
            LET rec == raw[df[i].index + 1] IN
            (rec.PULocationID >= 1 /\ rec.DOLocationID >= 1) =>
                /\ served[i].code = 200
                /\ served[i].features.PU_DO = features.X[i].PU_DO
                /\ IsZonePairKey(features.X[i].PU_DO, rec.PULocationID, rec.DOLocationID)
                /\ df[i].PU_DO = features.X[i].PU_DO
                /\ served[i].features.trip_distance = rec.trip_distance
                /\ features.X[i].trip_distance = rec.trip_distance

\* A record with a two-digit pickup zone and another dropoff zone went through
\* both sides.
C1_Witness ==
    /\ main_pc = "done"
    /\ \E i \in 1..Len(df) :
          /\ df[i].PULocationID >= 10
          /\ df[i].DOLocationID < df[i].PULocationID
          /\ served[i].code = 200

Kept(i) == \E k \in 1..Len(df) : df[k].index = i - 1

SecondsOf(rec) == rec.tpep_dropoff_datetime - rec.tpep_pickup_datetime

\* Duration within [1, 60] minutes, distance within (0, 100) miles.
InBoundsInclusive(rec) ==
    /\ 60 <= SecondsOf(rec) /\ SecondsOf(rec) <= 3600
    /\ 0 < rec.trip_distance /\ rec.trip_distance < 10000

\* Duration within (1, 60) minutes, distance within (0, 100) miles.
InBoundsStrict(rec) ==
    /\ 60 < SecondsOf(rec) /\ SecondsOf(rec) < 3600
    /\ 0 < rec.trip_distance /\ rec.trip_distance < 10000

\* C10 as stated: load_data keeps a record exactly when its duration is
\* strictly between 1 and 60 minutes and its distance strictly between 0 and
\* 100 miles.
C10_StrictFilter ==
    main_pc # "load_data" =>
        \A i \in 1..Len(raw) : Kept(i) <=> InBoundsStrict(raw[i])

\* C10 amended: load_data keeps a record exactly when its duration is between 1
\* and 60 minutes inclusive, its distance is strictly between 0 and 100 miles,
\* and fewer than limit such records precede it; the kept rows keep their order
\* and their values.
C10_InclusiveFilter ==
    main_pc # "load_data" =>
        /\ \A i \in 1..Len(raw) :
              Kept(i) <=>
                 /\ InBoundsInclusive(raw[i])
                 /\ Cardinality({j \in 1..(i - 1) : InBoundsInclusive(raw[j])}) < limit
        /\ \A k \in 1..Len(df) :
              /\ df[k].index \in 0..(Len(raw) - 1)
              /\ df[k].duration = SecondsOf(raw[df[k].index + 1])
              /\ df[k].trip_distance = raw[df[k].index + 1].trip_distance
              /\ k > 1 => df[k - 1].index < df[k].index

\* A record of exactly one minute and one of exactly sixty minutes are kept.
C10_Witness ==
    /\ main_pc # "load_data"
    /\ \E i \in 1..Len(raw) : Kept(i) /\ SecondsOf(raw[i]) = 60
    /\ \E i \in 1..Len(raw) : Kept(i) /\ SecondsOf(raw[i]) = 3600

----------------------------------------------------------------------------
(* Claims about the prediction service (Spec) *)

\* C2: the service process never terminates because the model failed to
\* load: every startup completes.
C2_StartupNeverAborts == svc # "terminated"

\* C3: /health reports status "ok" and model_loaded true exactly when a model
\* is loaded, status "degraded" and model_loaded false exactly when none is,
\* and the run id read from run_id.txt, or "unknown" when none was read.
C3_HealthTruthful ==
    (svc = "serving" /\ last.endpoint = "/health") =>
        LET body == last.body IN
        /\ "model_loaded" \in DOMAIN body
        /\ body.model_loaded = (model # None)
        /\ body.status = (IF model # None THEN "ok" ELSE "degraded")
        /\ body.run_id = (IF RUN_ID = None THEN "unknown" ELSE RUN_ID)

Degraded == svc = "serving" /\ model = None

\* C4 as stated: with no model loaded, every predict request fails with the
\* ModelUnavailable error (HTTP 500).
C4_EveryRequestUnavailable ==
    (Degraded /\ last.endpoint = "/predict") =>
        (last.code = 500 /\ last.error = "HTTPException")

\* C4 amended: with no model loaded, every predict request that passes
\* validation fails with the ModelUnavailable error (HTTP 500) raised by the
\* handler, never with an unhandled fault; the service leaves the degraded
\* state only by exiting, and a failed predict changes nothing but the response.
C4_DegradedStaysDegraded ==
    /\ [](  (Degraded /\ last.endpoint = "/predict") =>
               /\ last.code \in {422, 500}
               /\ last.code = 500 <=>
                     /\ last.request.PULocationID >= 1
                     /\ last.request.DOLocationID >= 1
                     /\ last.request.trip_distance > 0
               /\ last.code = 500 => last.error = "HTTPException"
               /\ ~last.model_called )
    /\ [][ /\ (Degraded /\ svc' = "serving") => model' = None
           /\ (svc = "serving" /\ last' # last /\ last'.endpoint = "/predict"
                 /\ last'.code # 200)
                 => UNCHANGED <<svc, RUN_ID, model, run_id_txt, models_model, mlruns, train>>
         ]_vars

\* A valid request was refused by a degraded service.
C4_Witness ==
    /\ Degraded
    /\ last.endpoint = "/predict"
    /\ last.code = 500
    /\ last.request.trip_distance > 0

\* C5: a request with a pickup or dropoff zone id < 1 or a trip_distance <= 0
\* is answered 422 and reaches neither the feature key nor the model, whether
\* or not a model is loaded.
C5_ValidationBoundary ==
    (svc = "serving" /\ last.endpoint = "/predict") =>
        ( (\/ last.request.PULocationID < 1
           \/ last.request.DOLocationID < 1
           \/ last.request.trip_distance <= 0)
          => /\ last.code = 422
             /\ ~last.model_called
             /\ "features" \notin DOMAIN last )

\* A request with distance 0 and valid zones was rejected by a service that
\* has a model loaded.
C5_Witness ==
    /\ svc = "serving"
    /\ model # None
    /\ last.endpoint = "/predict"
    /\ last.request.PULocationID >= 1
    /\ last.request.DOLocationID >= 1
    /\ last.request.trip_distance = 0
    /\ last.code = 422

\* C6: every successful predict returns as model_version the run id of the
\* training run that produced the artifact the service has loaded.
C6_VersionIsLoadedRun ==
    (svc = "serving" /\ last.endpoint = "/predict" /\ last.code = 200) =>
        last.body.model_version = model

\* The run left nothing but its entry in the tracking store: no parameters, no
\* metrics, no artifact, and neither run_id.txt nor models/model is its.
LeftNothing(n) ==
    /\ ~mlruns[n].params
    /\ ~mlruns[n].metrics
    /\ ~mlruns[n].model
    /\ run_id_txt # RunId(n)
    /\ models_model.exists => models_model.pipeline # RunId(n)

FitFails == train.pc = "fit" /\ train.empty_train

\* C11: a run whose fit failed, or has not completed yet, has no parameters, no
\* metrics and no artifact, and run_id.txt and models/model are not its; the
\* failing fit changes neither file; and run_id.txt is written only with the id
\* of a run whose artifact is already logged and, in 06-cicd, already saved
\* complete to models/model.
C11_FailedFitLeavesNothing ==
    /\ [](  /\ \A n \in 1..Len(mlruns) : mlruns[n].status = "FAILED" => LeftNothing(n)
            /\ train.pc = "fit" => LeftNothing(train.run)
            /\ run_id_txt # None =>
                  \E n \in 1..Len(mlruns) : run_id_txt = RunId(n) /\ mlruns[n].model )
    /\ [][ /\ FitFails =>
                 /\ UNCHANGED <<run_id_txt, models_model>>
                 /\ Len(mlruns') = Len(mlruns)
                 /\ \A n \in 1..Len(mlruns) :
                       /\ mlruns'[n].params = mlruns[n].params
                       /\ mlruns'[n].metrics = mlruns[n].metrics
                       /\ mlruns'[n].model = mlruns[n].model
           /\ run_id_txt' # run_id_txt =>
                 /\ run_id_txt' = RunId(train.run)
                 /\ mlruns[train.run].model
                 /\ lesson = "06-cicd" =>
                       /\ models_model.exists
                       /\ models_model.complete
                       /\ models_model.pipeline = RunId(train.run)
         ]_vars

\* The second run's fit failed after the first run had published its id.
C11_Witness ==
    /\ Len(mlruns) = 2
    /\ mlruns[1].status = "FINISHED"
    /\ mlruns[2].status = "FAILED"
    /\ run_id_txt = RunId(1)
    /\ train.pc = "idle"

----------------------------------------------------------------------------
(* Claims about the prediction log and the drift monitor (SpecLog) *)

\* The index labels of the lines that have both prediction and ground truth.
CompleteLabels(lines) ==
    {i - 1 : i \in {j \in 1..Len(lines) : lines[j][4] # <<>> /\ lines[j][5] # <<>>}}

Labels(frame) == {frame[i].index : i \in 1..Len(frame)}

MonitorSplit == monitor.outcome \in {"saved", "EvidentlyError"}

\* C7: with N complete rows, N >= 2, the monitor's reference window is the
\* first floor(N/2) rows by ascending timestamp and the current window the
\* remaining N - floor(N/2); the windows are disjoint, together hold exactly
\* the complete rows, and no reference timestamp is later than a current one;
\* a re-run on an unchanged log gives the same split.
C7_DriftSplit ==
    /\ []( (MonitorSplit /\ Cardinality(CompleteLabels(monitor.log.lines)) >= 2) =>
             LET lines == monitor.log.lines
                 N == Cardinality(CompleteLabels(lines))
                 reference == monitor.reference
                 current == monitor.current
             IN  /\ Len(reference) = N \div 2
                 /\ Len(current) = N - (N \div 2)
                 /\ Cardinality(Labels(reference)) = Len(reference)
                 /\ Cardinality(Labels(current)) = Len(current)
                 /\ Labels(reference) \cap Labels(current) = {}
                 /\ Labels(reference) \cup Labels(current) = CompleteLabels(lines)
                 /\ \A i \in 1..Len(reference) :
                       reference[i].ts = DecimalValue(lines[reference[i].index + 1][1])
                 /\ \A i \in 1..Len(current) :
                       current[i].ts = DecimalValue(lines[current[i].index + 1][1])
                 /\ \A i \in 1..Len(reference), j \in 1..Len(current) :
                       reference[i].ts <= current[j].ts
                 /\ \A i \in 1..(Len(reference) - 1) : reference[i].ts <= reference[i + 1].ts
                 /\ \A i \in 1..(Len(current) - 1) : current[i].ts <= current[i + 1].ts )
    /\ [][ (MonitorSplit /\ MonitorSplit' /\ monitor'.log = monitor.log) =>
              /\ monitor'.reference = monitor.reference
              /\ monitor'.current = monitor.current
         ]_vars

\* The monitor split a log of three complete rows and one incomplete row whose
\* lines are not in timestamp order.
C7_Witness ==
    /\ monitor.outcome = "saved"
    /\ Len(monitor.log.lines) > Cardinality(CompleteLabels(monitor.log.lines))
    /\ Len(monitor.reference) = 1
    /\ Len(monitor.current) = 2
    /\ monitor.reference[1].index > monitor.current[1].index

\* C8: the monitor fails with EmptyLog (the FileNotFoundError of its first
\* check) and computes no report whenever the log file is absent or holds
\* fewer than 2 complete rows.
C8_EmptyLog ==
    ( /\ monitor.outcome # "none"
      /\ \/ ~monitor.log.exists
         \/ Cardinality(CompleteLabels(monitor.log.lines)) < 2 )
    => /\ monitor.outcome = "FileNotFoundError"
       /\ "reference" \notin DOMAIN monitor

FileRows == IF predictions_csv.exists THEN read_csv(predictions_csv.lines) ELSE <<>>

\* C12: simulate.py reads the log in one step and overwrites it in a later one,
\* with no lock: what a process writes is what it read followed by its own
\* rows, whatever another process has written in between, so that rows another
\* process appended after the read are gone from the log after the write.
C12_ReadThenOverwrite ==
    [][ \A w \in Writers :
           /\ (sim[w].pc = "merge" /\ sim'[w].pc = "write") =>
                 /\ sim'[w].out = FileRows \o sim[w].new
                 /\ sim'[w].new = sim[w].new
                 /\ UNCHANGED <<predictions_csv, written>>
           /\ (sim[w].pc = "write" /\ sim'[w].pc = "write") => sim'[w] = sim[w]
           /\ (sim[w].pc = "write" /\ sim'[w].pc = "idle") =>
                 /\ predictions_csv' = File(to_csv(sim[w].out))
                 /\ written' = written \o sim[w].new
      ]_vars

\* Both processes have ended, and a row one of them wrote is not in the log.
C12_Witness ==
    /\ \A w \in Writers : sim[w].pc = "idle"
    /\ predictions_csv.exists
    /\ Len(written) = 2
    /\ written[1].ts # written[2].ts
    /\ \E i \in 1..Len(written) :
          \A k \in 1..Len(FileRows) : FileRows[k].ts # written[i].ts

====
